---- MODULE Spec2Model ----
(***************************************************************************)
(* Live darshan stream finder: the v3 pipeline (find_live_streams_v3.py)   *)
(* and the yt-dlp pipeline (find_live_streams.py).                         *)
(* Titles are sequences of one-character strings so that lower() and the   *)
(* substring test `kw in title` are computed, not assumed.                 *)
(***************************************************************************)
EXTENDS Integers, Sequences, FiniteSets, TLC

VARIABLES
    temples,          \* config['temples'], in declared order
    filters,          \* config['filters']
    pc,               \* position of main()
    search_results,   \* ids returned by global_search, in pool order
    video_details,    \* dict video_id -> details item (Phase 2)
    assigned,         \* dict temple_id -> {stream, is_trusted, viewer_count}
    unmatched,        \* list of {video_id, channel_id}
    missing_temples,  \* list of temple ids computed after Phase 3
    idx,              \* loop position in Phase 3 / Phase 4
    queried,          \* temple ids for which fallback_search was called
    bulk_assigned,    \* temple ids assigned when Phase 3 ended
    fb_items,         \* temple id -> result list the fallback search returned
    output,           \* the record written to live_streams.json
    run,              \* 1 for the first run, 2 for the repeated run
    prev,             \* result of the first run (assigned, output)
    calls,            \* the remote calls of the run: requests issued per query
                      \* template and per fallback query, the last call or sleep
    gs_pc, gs_n, gs_q, gs_items, gs_log, all_results, seen_ids,   \* global_search
    fn_pc, fn_video, fn_trusted, fn_passed, fn_match,         \* function harness
    fn_match_yt,      \* result of find_live_streams.py's find_matching_temple
    yt_pc,            \* position of find_live_streams.py's main()
    yt_declared,      \* config['temples'] as declared, before temples.sort
    all_videos,       \* ids of the live entries found by Phase 1, in pool order
    yt_idx,           \* loop position in Phase 2 / Phase 3
    results,          \* dict temple_id -> stream
    yt_matched,       \* video id -> temple id find_matching_temple returned
    missing,          \* ids of the temples without result after Phase 2
    yt_fb,            \* temple id -> entries its fallback search returned
    yt_output         \* the record written by the yt-dlp pipeline

mainVars == <<pc, search_results, video_details, assigned, unmatched,
              missing_temples, idx, queried, bulk_assigned, fb_items, output,
              run, prev, calls>>
gsVars == <<gs_pc, gs_n, gs_q, gs_items, gs_log, all_results, seen_ids>>
fnVars == <<fn_pc, fn_video, fn_trusted, fn_passed, fn_match, fn_match_yt>>
cfgVars == <<temples, filters>>
ytVars == <<yt_pc, yt_declared, all_videos, yt_idx, results, yt_matched,
            missing, yt_fb, yt_output>>
vars == <<cfgVars, mainVars, gsVars, fnVars, ytVars>>

None == "none"

----------------------------------------------------------------------------
(* Strings *)

Upper == <<"A","B","C","D","E","F","G","H","I","J","K","L","M",
           "N","O","P","Q","R","S","T","U","V","W","X","Y","Z">>
Lowercase == <<"a","b","c","d","e","f","g","h","i","j","k","l","m",
               "n","o","p","q","r","s","t","u","v","w","x","y","z">>

\* str.lower(), one character
LowerMap ==
    [c \in {Upper[i] : i \in DOMAIN Upper} |->
        Lowercase[CHOOSE i \in DOMAIN Upper : Upper[i] = c]]

LowerChar(c) == IF c \in DOMAIN LowerMap THEN LowerMap[c] ELSE c

\* str.lower()
Lower(s) == [i \in DOMAIN s |-> LowerChar(s[i])]

\* the Python test `kw in s` on strings
Contains(kw, s) ==
    \E k \in 0..(Len(s) - Len(kw)) :
        \A i \in 1..Len(kw) : s[k + i] = kw[i]

\* the least element of a set of positions: the first hit of a loop
First(S) == CHOOSE i \in S : \A j \in S : i <= j

----------------------------------------------------------------------------
(* Configuration: temples_v3.json is read by main() and is not part of the *)
(* sources; the runs are checked for each of the configurations below.     *)

KwSo == <<"S","o">>
KwMa == <<"m","a">>
KwRe == <<"R","e">>

Channels == {"c1", "c2", "c9"}

\* two temple lists: the first declares the temples in ascending priority
\* and gives each its own trusted channel; the second declares them against
\* their priority and trusts one channel for both
TempleLists ==
    { <<[id |-> "somnath", priority |-> 1, title_keywords |-> <<KwSo>>,
         trusted_channels |-> {"c1"}],
        [id |-> "mahakal", priority |-> 2, title_keywords |-> <<KwMa>>,
         trusted_channels |-> {"c2"}]>>,
      <<[id |-> "somnath", priority |-> 2, title_keywords |-> <<KwSo>>,
         trusted_channels |-> {"c1"}],
        [id |-> "mahakal", priority |-> 1, title_keywords |-> <<KwMa>>,
         trusted_channels |-> {"c1"}]>> }

MinViewerChoices == {0, 5}

Configs ==
    { <<tl, [exclude_title_keywords |-> <<KwRe>>,
             min_viewer_count_untrusted |-> mv]>> :
      tl \in TempleLists, mv \in MinViewerChoices }

TempleIds == {"somnath", "mahakal"}

\* temple_by_id[temple_id]
temple_by_id(tid) == CHOOSE t \in {temples[i] : i \in DOMAIN temples} : t.id = tid

----------------------------------------------------------------------------
(* Details items of the videos endpoint *)

Titles ==
    { <<"S","O"," ","x">>,          \* somnath keyword, other case
      <<"m","a">>,                  \* mahakal keyword
      <<"s","o"," ","m","a">>,      \* both keywords
      <<"r","E"," ","s","o">>,      \* excluded keyword and somnath keyword
      <<"z","z">>,                  \* no keyword
      <<"R","E","z">> }             \* excluded keyword only

\* liveStreamingDetails.concurrentViewers as the provider sends it
Absent == [kind |-> "absent", n |-> 0]
NaN == [kind |-> "nan", n |-> 0]
Num(n) == [kind |-> "num", n |-> n]
ViewerValues == {Absent, NaN} \cup {Num(n) : n \in {0, 4, 5, 9}}

\* status.embeddable
EmbeddableValues == {"true", "false", "absent"}

VideoRecords ==
    [title : Titles, channelId : Channels,
     concurrentViewers : ViewerValues, embeddable : EmbeddableValues]

----------------------------------------------------------------------------
(* Pure functions of find_live_streams_v3.py *)

\* the first keyword-matching temple at or after position i
RECURSIVE MatchFrom(_, _, _)
MatchFrom(title_lower, channel_id, i) ==
    IF i > Len(temples) THEN <<None, FALSE>>
    ELSE IF \E k \in DOMAIN temples[i].title_keywords :
                Contains(Lower(temples[i].title_keywords[k]), title_lower)
         THEN <<temples[i].id, channel_id \in temples[i].trusted_channels>>
         ELSE MatchFrom(title_lower, channel_id, i + 1)

\* the title compared without lower()
find_matching_temple_CaseSensitive(title, channel_id) ==
    MatchFrom(title, channel_id, 1)

find_matching_temple(title, channel_id) ==
    MatchFrom(Lower(title), channel_id, 1)

\* int(viewer_count) under try/except, default '0'
ViewerCountOrZero(cv) == IF cv.kind = "num" THEN cv.n ELSE 0

\* status.get('embeddable', True)
IsEmbeddable(video) == video.embeddable # "false"

HasExcludedKeyword(title) ==
    \E k \in DOMAIN filters.exclude_title_keywords :
        Contains(Lower(filters.exclude_title_keywords[k]), Lower(title))

\* the viewer floor applied to trusted channels too
passes_filters_NoExemption(video, is_trusted) ==
    IF ~IsEmbeddable(video) THEN FALSE
    ELSE IF HasExcludedKeyword(video.title) THEN FALSE
    ELSE ViewerCountOrZero(video.concurrentViewers)
            >= filters.min_viewer_count_untrusted

\* the excluded keywords tested for untrusted channels only
passes_filters_TrustedSkipsExclusion(video, is_trusted) ==
    IF ~IsEmbeddable(video) THEN FALSE
    ELSE IF is_trusted THEN TRUE
    ELSE IF HasExcludedKeyword(video.title) THEN FALSE
    ELSE ViewerCountOrZero(video.concurrentViewers)
            >= filters.min_viewer_count_untrusted

passes_filters(video, is_trusted) ==
    IF ~IsEmbeddable(video) THEN FALSE
    ELSE IF HasExcludedKeyword(video.title) THEN FALSE
    ELSE IF ~is_trusted
            /\ ViewerCountOrZero(video.concurrentViewers)
                 < filters.min_viewer_count_untrusted
         THEN FALSE
    ELSE TRUE

extract_stream_info(video_id, video, temple, is_trusted) ==
    [temple_id |-> temple.id,
     video_id |-> video_id,
     title |-> video.title,
     channel_id |-> video.channelId,
     viewer_count |-> ViewerCountOrZero(video.concurrentViewers),
     is_trusted_channel |-> is_trusted]

----------------------------------------------------------------------------
(* Pure functions of find_live_streams.py (the yt-dlp pipeline) *)

HasKeyword(temple, title_lower) ==
    \E k \in DOMAIN temple.title_keywords :
        Contains(Lower(temple.title_keywords[k]), title_lower)

\* `for temple in temples`: the first temple at or after position i that
\* trusts the channel or has a keyword in the title
RECURSIVE YtMatchFrom(_, _, _, _)
YtMatchFrom(title_lower, channel_id, temple_list, i) ==
    IF i > Len(temple_list) THEN None
    ELSE IF channel_id \in temple_list[i].trusted_channels THEN temple_list[i].id
    ELSE IF HasKeyword(temple_list[i], title_lower) THEN temple_list[i].id
    ELSE YtMatchFrom(title_lower, channel_id, temple_list, i + 1)

\* a pass over the trusted channels of every temple before any keyword
yt_find_matching_temple_TrustPassFirst(title, channel_id, temple_list) ==
    LET trusted == {i \in DOMAIN temple_list :
                       channel_id \in temple_list[i].trusted_channels}
        keyword == {i \in DOMAIN temple_list :
                       HasKeyword(temple_list[i], Lower(title))}
    IN IF trusted # {} THEN temple_list[First(trusted)].id
       ELSE IF keyword # {} THEN temple_list[First(keyword)].id
       ELSE None

yt_find_matching_temple(title, channel_id, temple_list) ==
    YtMatchFrom(Lower(title), channel_id, temple_list, 1)

----------------------------------------------------------------------------
(* Values the variables of the other phases hold while one is checked *)

MainIdle ==
    /\ pc = "idle" /\ search_results = <<>> /\ video_details = <<>>
    /\ assigned = <<>> /\ unmatched = <<>> /\ missing_temples = <<>>
    /\ idx = 0 /\ queried = {} /\ bulk_assigned = {} /\ fb_items = <<>>
    /\ output = <<>> /\ run = 0 /\ prev = <<>> /\ calls = <<>>

GsIdle ==
    /\ gs_pc = "idle" /\ gs_n = 0 /\ gs_q = 0 /\ gs_items = <<>>
    /\ gs_log = [dup |-> FALSE, noid |-> FALSE]
    /\ all_results = <<>> /\ seen_ids = {}

FnIdle ==
    /\ fn_pc = "idle" /\ fn_video = <<>> /\ fn_trusted = FALSE
    /\ fn_passed = <<>> /\ fn_match = <<>> /\ fn_match_yt = <<>>

YtIdle ==
    /\ yt_pc = "idle" /\ yt_declared = <<>> /\ all_videos = <<>> /\ yt_idx = 0
    /\ results = <<>> /\ yt_matched = <<>> /\ missing = <<>> /\ yt_fb = <<>>
    /\ yt_output = <<>>

LoadConfig(c) == temples = c[1] /\ filters = c[2]

----------------------------------------------------------------------------
(* global_search, one step per remote call and per returned item *)

MaxQueries == 2
MaxResults == 2

SearchIds == {"v1", "v2", "v3", ""}

\* a search item: item.get('id', {}).get('videoId') is None when has_id is FALSE
SearchItems ==
    {[has_id |-> TRUE, videoId |-> v] : v \in SearchIds}
      \cup {[has_id |-> FALSE, videoId |-> ""]}

RECURSIVE SeqsUpTo(_, _)
SeqsUpTo(S, n) ==
    IF n = 0 THEN {<<>>}
    ELSE LET shorter == SeqsUpTo(S, n - 1)
         IN shorter \cup {Append(q, x) : q \in {r \in shorter : Len(r) = n - 1}, x \in S}

\* the test without `not in seen_ids`
ShouldKeepAnySeen(item, seen) == item.has_id /\ item.videoId # ""

\* `if video_id and video_id not in seen_ids`
ShouldKeep(item, seen) ==
    item.has_id /\ item.videoId # "" /\ item.videoId \notin seen

InitSearch ==
    /\ \E c \in Configs : LoadConfig(c)
    /\ MainIdle /\ FnIdle /\ YtIdle
    /\ gs_n \in 0..MaxQueries
    /\ gs_q = 1
    /\ gs_pc = IF gs_n = 0 THEN "return" ELSE "request"
    /\ gs_items = <<>>
    /\ gs_log = [dup |-> FALSE, noid |-> FALSE]
    /\ all_results = <<>>
    /\ seen_ids = {}

\* data = api_request('search', params); items = data.get('items', [])
GsRequest ==
    /\ gs_pc = "request"
    /\ \E items \in SeqsUpTo(SearchItems, MaxResults) : gs_items' = items
    /\ gs_pc' = "items"
    /\ UNCHANGED <<gs_n, gs_q, gs_log, all_results, seen_ids>>

\* one iteration of `for item in items`
GsItem ==
    /\ gs_pc = "items"
    /\ gs_items # <<>>
    /\ LET item == Head(gs_items)
       IN /\ IF ShouldKeep(item, seen_ids)
             THEN /\ seen_ids' = seen_ids \cup {item.videoId}
                  /\ all_results' = Append(all_results, item)
                  /\ gs_log' = gs_log
             ELSE /\ UNCHANGED <<seen_ids, all_results>>
                  /\ gs_log' = IF item.has_id /\ item.videoId # ""
                               THEN [gs_log EXCEPT !.dup = TRUE]
                               ELSE [gs_log EXCEPT !.noid = TRUE]
    /\ gs_items' = Tail(gs_items)
    /\ UNCHANGED <<gs_n, gs_q, gs_pc>>

\* time.sleep(0.3) and the next query template
GsSleep ==
    /\ gs_pc = "items"
    /\ gs_items = <<>>
    /\ gs_q' = gs_q + 1
    /\ gs_pc' = IF gs_q + 1 > gs_n THEN "return" ELSE "request"
    /\ UNCHANGED <<gs_n, gs_items, gs_log, all_results, seen_ids>>

NextSearch ==
    \/ GsRequest /\ UNCHANGED <<cfgVars, mainVars, fnVars, ytVars>>
    \/ GsItem /\ UNCHANGED <<cfgVars, mainVars, fnVars, ytVars>>
    \/ GsSleep /\ UNCHANGED <<cfgVars, mainVars, fnVars, ytVars>>

SpecSearch == InitSearch /\ [][NextSearch]_vars

----------------------------------------------------------------------------
(* find_matching_temple and passes_filters applied to drawn inputs *)

InitFn ==
    /\ \E c \in Configs : LoadConfig(c)
    /\ MainIdle /\ GsIdle /\ YtIdle
    /\ fn_pc = "input"
    /\ fn_video \in VideoRecords
    /\ fn_trusted \in BOOLEAN
    /\ fn_passed = <<>>
    /\ fn_match = <<>>
    /\ fn_match_yt = <<>>

FnPassesFilters ==
    /\ fn_pc = "input"
    /\ fn_passed = <<>>
    /\ fn_passed' = <<passes_filters(fn_video, fn_trusted)>>
    /\ UNCHANGED <<fn_pc, fn_video, fn_trusted, fn_match, fn_match_yt>>

FnFindMatchingTemple ==
    /\ fn_pc = "input"
    /\ fn_match = <<>>
    /\ fn_match' = find_matching_temple(fn_video.title, fn_video.channelId)
    /\ UNCHANGED <<fn_pc, fn_video, fn_trusted, fn_passed, fn_match_yt>>

\* find_live_streams.py: find_matching_temple(video, temples)
FnYtFindMatchingTemple ==
    /\ fn_pc = "input"
    /\ fn_match_yt = <<>>
    /\ fn_match_yt' = <<yt_find_matching_temple(fn_video.title, fn_video.channelId,
                                                temples)>>
    /\ UNCHANGED <<fn_pc, fn_video, fn_trusted, fn_passed, fn_match>>

NextFn ==
    \/ FnPassesFilters /\ UNCHANGED <<cfgVars, mainVars, gsVars, ytVars>>
    \/ FnFindMatchingTemple /\ UNCHANGED <<cfgVars, mainVars, gsVars, ytVars>>
    \/ FnYtFindMatchingTemple /\ UNCHANGED <<cfgVars, mainVars, gsVars, ytVars>>

SpecFn == InitFn /\ [][NextFn]_vars

----------------------------------------------------------------------------
(* The provider's videos: what the videos endpoint answers for each id *)

Video(t, c, v, e) ==
    [kind |-> "item",
     rec |-> [title |-> t, channelId |-> c, concurrentViewers |-> v, embeddable |-> e]]

Catalog ==
    [a |-> Video(<<"S","O"," ","x">>, "c9", Num(9), "true"),
     b |-> Video(<<"z","z">>, "c1", Num(0), "absent"),
     c |-> Video(<<"S","O"," ","x">>, "c1", NaN, "true"),
     d |-> Video(<<"s","o"," ","m","a">>, "c2", Num(4), "true"),
     e |-> Video(<<"r","E"," ","s","o">>, "c1", Num(9), "true"),
     f |-> Video(<<"m","a">>, "c9", Num(5), "false"),
     g |-> Video(<<"m","a">>, "c2", Absent, "true"),
     h |-> [kind |-> "missing", rec |-> <<>>],       \* no item comes back
     i |-> [kind |-> "noid", rec |-> <<>>],          \* the item has no 'id'
     j |-> Video(<<"S","O"," ","x">>, "c1", Num(4), "true"),
     k |-> Video(<<"R","E","z">>, "c1", Num(9), "true"),
     l |-> Video(<<"s","o">>, "c9", Num(9), "true"),
     m |-> Video(<<"z","z">>, "c1", NaN, "true")]

VideoIds == DOMAIN Catalog

\* ids a fallback search may return
FallbackIds == {"a", "e", "j"}

MaxPool == 2
MaxFallback == 2

IsInjective(q) == \A m, n \in DOMAIN q : m # n => q[m] # q[n]

FallbackLists == {q \in SeqsUpTo(FallbackIds, MaxFallback) : IsInjective(q)}

Range(q) == {q[m] : m \in DOMAIN q}

----------------------------------------------------------------------------
(* get_video_details *)

\* an item without 'id' makes `all_details[item['id']]` raise KeyError
DetailsRaises(video_ids) ==
    \E v \in Range(video_ids) : Catalog[v].kind = "noid"

\* the dict of the items that came back; a failed call (api_request
\* returning {}) leaves it empty, as when no requested id has an item
get_video_details(video_ids) ==
    [v \in {w \in Range(video_ids) : Catalog[w].kind = "item"} |-> Catalog[v].rec]

----------------------------------------------------------------------------
(* main(), Phase 1 to Phase 3 *)

\* int(live_details.get('concurrentViewers', 0) or 0), outside any try
IntRaises(cv) == cv.kind = "nan"
IntOrZero(cv) == IF cv.kind = "num" THEN cv.n ELSE 0

\* the dict replaced by one holding the new entry only
Put_DropsOthers(dict, key, val) == [x \in {key} |-> val]

Put(dict, key, val) ==
    [x \in DOMAIN dict \cup {key} |-> IF x = key THEN val ELSE dict[x]]

\* an equal viewer count replaces the incumbent
ShouldAssign_TieReplaces(asg, temple_id, is_trusted, viewer_count) ==
    IF temple_id \notin DOMAIN asg THEN TRUE
    ELSE LET current == asg[temple_id]
         IN IF is_trusted /\ ~current.is_trusted THEN TRUE
            ELSE IF is_trusted = current.is_trusted
                    /\ viewer_count >= current.viewer_count THEN TRUE
            ELSE FALSE

\* more viewers replace the incumbent whatever the trust levels
ShouldAssign_ViewersOnly(asg, temple_id, is_trusted, viewer_count) ==
    IF temple_id \notin DOMAIN asg THEN TRUE
    ELSE viewer_count > asg[temple_id].viewer_count

ShouldAssign(asg, temple_id, is_trusted, viewer_count) ==
    IF temple_id \notin DOMAIN asg THEN TRUE
    ELSE LET current == asg[temple_id]
         IN IF is_trusted /\ ~current.is_trusted THEN TRUE
            ELSE IF is_trusted = current.is_trusted
                    /\ viewer_count > current.viewer_count THEN TRUE
            ELSE FALSE

\* iteration in an order that differs from run to run
BulkItem_UnstableOrder(i) ==
    IF run = 2 THEN search_results[Len(search_results) + 1 - i]
    ELSE search_results[i]

\* `for item in search_results`
BulkItem(i) == search_results[i]

\* requests issued for one query whose answer is items, a second one on an
\* empty answer
Attempts_RetryOnEmpty(items) == IF items = <<>> THEN 2 ELSE 1

\* api_request sends one request and returns {} on any error
Attempts(items) == 1

\* the remote-call log after one more remote call
Called(log) == [log EXCEPT !.back_to_back = log.back_to_back \/ log.last = "call",
                           !.last = "call"]

\* the remote-call log after time.sleep
Slept(log) == [log EXCEPT !.last = "sleep"]

\* the log when global_search has returned
CallsAfterSearch ==
    [global |-> [q \in 1..MaxQueries |-> 1],
     fallback |-> [t \in TempleIds |-> 0],
     last |-> "sleep",
     back_to_back |-> FALSE]

\* `for item in items` of global_search over the ids of an answer
RECURSIVE KeepNew(_, _)
KeepNew(all, items) ==
    IF items = <<>> THEN all
    ELSE KeepNew(IF ShouldKeep([has_id |-> TRUE, videoId |-> Head(items)], Range(all))
                 THEN Append(all, Head(items)) ELSE all,
                 Tail(items))

\* main() starts with MaxQueries query templates in the configuration
Init ==
    /\ \E c \in Configs : LoadConfig(c)
    /\ GsIdle /\ FnIdle /\ YtIdle
    /\ pc = "search"
    /\ search_results = <<>>
    /\ calls = [global |-> [q \in 1..MaxQueries |-> 0],
                fallback |-> [t \in TempleIds |-> 0],
                last |-> "none",
                back_to_back |-> FALSE]
    /\ video_details = <<>>
    /\ assigned = <<>>
    /\ unmatched = <<>>
    /\ missing_temples = <<>>
    /\ idx = 1
    /\ queried = {}
    /\ bulk_assigned = {}
    /\ fb_items = <<>>
    /\ output = <<>>
    /\ run = 1
    /\ prev = [fb_items |-> <<>>, assigned |-> <<>>, streams |-> <<>>]

\* Phase 1, one iteration of `for query_template in queries`: the request,
\* the new ids appended to the pool, time.sleep(0.3); the answers are as long
\* as the pool bound leaves room
GlobalSearchStep ==
    /\ pc = "search"
    /\ idx <= MaxQueries
    /\ \E items \in SeqsUpTo(VideoIds, MaxPool - Len(search_results)) :
          /\ search_results' = KeepNew(search_results, items)
          /\ calls' = Slept(Called(
                 [calls EXCEPT !.global[idx] = calls.global[idx] + Attempts(items)]))
    /\ idx' = IF idx + 1 > MaxQueries THEN 0 ELSE idx + 1
    /\ pc' = IF idx + 1 > MaxQueries THEN "details" ELSE "search"
    /\ UNCHANGED <<video_details, assigned, unmatched, missing_temples,
                   queried, bulk_assigned, fb_items, output, run, prev>>

\* Phase 2: no request for an empty pool, else one batch request
GetVideoDetails ==
    /\ pc = "details"
    /\ calls' = IF search_results = <<>> THEN calls ELSE Called(calls)
    /\ IF DetailsRaises(search_results)
       THEN pc' = "crashed" /\ UNCHANGED <<video_details, idx>>
       ELSE /\ video_details' = get_video_details(search_results)
            /\ pc' = "bulk"
            /\ idx' = 1
    /\ UNCHANGED <<search_results, assigned, unmatched, missing_temples,
                   queried, bulk_assigned, fb_items, output, run, prev>>

BulkStep ==
    /\ pc = "bulk"
    /\ idx <= Len(search_results)
    /\ LET video_id == BulkItem(idx)
       IN IF video_id \notin DOMAIN video_details
          THEN idx' = idx + 1 /\ UNCHANGED <<pc, assigned, unmatched>>
          ELSE
            LET video == video_details[video_id]
                m == find_matching_temple(video.title, video.channelId)
                temple_id == m[1]
                is_trusted == m[2]
            IN IF temple_id = None
               THEN /\ unmatched' = Append(unmatched,
                          [video_id |-> video_id, channel_id |-> video.channelId])
                    /\ idx' = idx + 1
                    /\ UNCHANGED <<pc, assigned>>
               ELSE IF ~passes_filters(video, is_trusted)
               THEN idx' = idx + 1 /\ UNCHANGED <<pc, assigned, unmatched>>
               ELSE IF IntRaises(video.concurrentViewers)
               THEN pc' = "crashed" /\ UNCHANGED <<idx, assigned, unmatched>>
               ELSE
                 LET viewer_count == IntOrZero(video.concurrentViewers)
                 IN /\ assigned' =
                         IF ShouldAssign(assigned, temple_id, is_trusted, viewer_count)
                         THEN Put(assigned, temple_id,
                                  [stream |-> extract_stream_info(video_id, video,
                                                 temple_by_id(temple_id), is_trusted),
                                   is_trusted |-> is_trusted,
                                   viewer_count |-> viewer_count])
                         ELSE assigned
                    /\ idx' = idx + 1
                    /\ UNCHANGED <<pc, unmatched>>
    /\ UNCHANGED <<search_results, video_details, missing_temples, queried,
                   bulk_assigned, fb_items, output, run, prev, calls>>

\* every temple, assigned or not
MissingTemples_All(asg) == [n \in DOMAIN temples |-> temples[n].id]

\* missing_temples = [t for t in temples if t['id'] not in assigned]
MissingTemples(asg) ==
    LET ids == [n \in DOMAIN temples |-> temples[n].id]
    IN SelectSeq(ids, LAMBDA tid : tid \notin DOMAIN asg)

BulkEnd ==
    /\ pc = "bulk"
    /\ idx > Len(search_results)
    /\ missing_temples' = MissingTemples(assigned)
    /\ bulk_assigned' = DOMAIN assigned
    /\ pc' = IF MissingTemples(assigned) = <<>> THEN "output" ELSE "fallback"
    /\ idx' = 1
    /\ UNCHANGED <<search_results, video_details, assigned, unmatched, queried,
                   fb_items, output, run, prev, calls>>

----------------------------------------------------------------------------
(* fallback_search and main(), Phase 4 and Phase 5 *)

\* the result list in provider order, then the two selection loops
fallback_search(temple, video_ids, details) ==
    LET trusted_ids == temple.trusted_channels
        known == {n \in DOMAIN video_ids : video_ids[n] \in DOMAIN details}
        trusted_pass ==
            {n \in known : /\ details[video_ids[n]].channelId \in trusted_ids
                           /\ passes_filters(details[video_ids[n]], TRUE)}
        any_pass ==
            {n \in known :
                passes_filters(details[video_ids[n]],
                               details[video_ids[n]].channelId \in trusted_ids)}
    IN IF trusted_pass # {}
       THEN LET v == video_ids[First(trusted_pass)]
            IN <<extract_stream_info(v, details[v], temple, TRUE)>>
       ELSE IF any_pass # {}
       THEN LET v == video_ids[First(any_pass)]
            IN <<extract_stream_info(v, details[v], temple,
                                     details[v].channelId \in trusted_ids)>>
       ELSE <<>>

\* the unmatched list not consulted
UnmatchedHits_None(temple) == {}

\* the unmatched videos of the temple's trusted channels taken unfiltered
UnmatchedHits_NoFilter(temple) ==
    {n \in DOMAIN unmatched :
        /\ unmatched[n].channel_id \in temple.trusted_channels
        /\ unmatched[n].video_id \in DOMAIN video_details}

\* positions of the unmatched videos of the temple's trusted channels that pass
UnmatchedHits(temple) ==
    {n \in DOMAIN unmatched :
        /\ unmatched[n].channel_id \in temple.trusted_channels
        /\ unmatched[n].video_id \in DOMAIN video_details
        /\ passes_filters(video_details[unmatched[n].video_id], TRUE)}

FallbackStep ==
    /\ pc = "fallback"
    /\ idx <= Len(missing_temples)
    /\ LET temple == temple_by_id(missing_temples[idx])
           next_pc == IF idx + 1 > Len(missing_temples) THEN "output" ELSE "fallback"
       IN IF UnmatchedHits(temple) # {}
          THEN
            LET video_id == unmatched[First(UnmatchedHits(temple))].video_id
                video == video_details[video_id]
            IN IF IntRaises(video.concurrentViewers)
               THEN pc' = "crashed"
                    /\ UNCHANGED <<assigned, idx, queried, fb_items, calls>>
               ELSE /\ assigned' = Put(assigned, temple.id,
                          [stream |-> extract_stream_info(video_id, video, temple, TRUE),
                           is_trusted |-> TRUE,
                           viewer_count |-> IntOrZero(video.concurrentViewers)])
                    /\ idx' = idx + 1
                    /\ pc' = next_pc
                    /\ UNCHANGED <<queried, fb_items, calls>>
          ELSE
            \E video_ids \in (IF run = 2 /\ temple.id \in DOMAIN prev.fb_items
                              THEN {prev.fb_items[temple.id]} ELSE FallbackLists) :
              /\ queried' = queried \cup {temple.id}
              /\ fb_items' = Put(fb_items, temple.id, video_ids)
              /\ LET searched == Called(
                         [calls EXCEPT !.fallback[temple.id] =
                              calls.fallback[temple.id] + Attempts(video_ids)])
                 IN calls' = IF video_ids = <<>> THEN Slept(searched)
                             ELSE IF DetailsRaises(video_ids) THEN Called(searched)
                             ELSE Slept(Called(searched))
              /\ IF DetailsRaises(video_ids)
                 THEN pc' = "crashed" /\ UNCHANGED <<assigned, idx>>
                 ELSE
                   LET stream == fallback_search(temple, video_ids,
                                     get_video_details(video_ids))
                   IN /\ assigned' =
                           IF stream # <<>>
                           THEN Put(assigned, temple.id,
                                    [stream |-> stream[1],
                                     is_trusted |-> stream[1].is_trusted_channel,
                                     viewer_count |-> stream[1].viewer_count])
                           ELSE assigned
                      /\ idx' = idx + 1
                      /\ pc' = next_pc
    /\ UNCHANGED <<search_results, video_details, unmatched, missing_temples,
                   bulk_assigned, output, run, prev>>

\* a record for every temple, a placeholder for the unresolved ones
RECURSIVE CollectStreams_Sentinel(_, _)
CollectStreams_Sentinel(asg, n) ==
    IF n > Len(temples) THEN <<>>
    ELSE <<IF temples[n].id \in DOMAIN asg THEN asg[temples[n].id].stream
           ELSE [temple_id |-> temples[n].id, video_id |-> None, title |-> <<>>,
                 channel_id |-> None, viewer_count |-> 0,
                 is_trusted_channel |-> FALSE]>>
         \o CollectStreams_Sentinel(asg, n + 1)

\* `for temple in temples: if temple['id'] in assigned: live_streams.append(...)`
RECURSIVE CollectStreams(_, _)
CollectStreams(asg, n) ==
    IF n > Len(temples) THEN <<>>
    ELSE (IF temples[n].id \in DOMAIN asg THEN <<asg[temples[n].id].stream>> ELSE <<>>)
         \o CollectStreams(asg, n + 1)

Output ==
    /\ pc = "output"
    /\ LET live_streams == CollectStreams(assigned, 1)
       IN output' = [stream_count |-> Len(live_streams), streams |-> live_streams]
    /\ pc' = "done"
    /\ UNCHANGED <<search_results, video_details, assigned, unmatched,
                   missing_temples, idx, queried, bulk_assigned, fb_items,
                   run, prev, calls>>

\* the same pool, details and fallback results are run a second time
Rerun ==
    /\ pc = "done"
    /\ run = 1
    /\ run' = 2
    /\ prev' = [prev EXCEPT !.fb_items = fb_items, !.assigned = assigned,
                            !.streams = output.streams]
    /\ pc' = "details"
    /\ video_details' = <<>>
    /\ assigned' = <<>>
    /\ unmatched' = <<>>
    /\ missing_temples' = <<>>
    /\ idx' = 0
    /\ queried' = {}
    /\ bulk_assigned' = {}
    /\ fb_items' = <<>>
    /\ output' = <<>>
    /\ calls' = CallsAfterSearch
    /\ UNCHANGED search_results

Next ==
    \/ GlobalSearchStep /\ UNCHANGED <<cfgVars, gsVars, fnVars, ytVars>>
    \/ GetVideoDetails /\ UNCHANGED <<cfgVars, gsVars, fnVars, ytVars>>
    \/ BulkStep /\ UNCHANGED <<cfgVars, gsVars, fnVars, ytVars>>
    \/ BulkEnd /\ UNCHANGED <<cfgVars, gsVars, fnVars, ytVars>>
    \/ FallbackStep /\ UNCHANGED <<cfgVars, gsVars, fnVars, ytVars>>
    \/ Output /\ UNCHANGED <<cfgVars, gsVars, fnVars, ytVars>>
    \/ Rerun /\ UNCHANGED <<cfgVars, gsVars, fnVars, ytVars>>

Spec == Init /\ [][Next]_vars

----------------------------------------------------------------------------
(* find_live_streams.py, the yt-dlp pipeline: main() from Phase 2 on *)

\* the live entries yt-dlp can return: the catalog videos, read as entries
\* (concurrent_view_count a number or missing, playable_in_embed)
YtIds ==
    {v \in VideoIds : /\ Catalog[v].kind = "item"
                      /\ Catalog[v].rec.concurrentViewers.kind # "nan"}

YtPools == {q \in SeqsUpTo(YtIds, MaxPool) : IsInjective(q)}

\* key pairs compared as Python compares tuples
KeyLess(x, y) == x[1] < y[1] \/ (x[1] = y[1] /\ x[2] < y[2])

\* list.sort(key=...): a stable sort, keys[n] being the key of q[n]
SortedBy(q, keys) ==
    LET rank(n) == Cardinality({m \in DOMAIN q :
                        \/ KeyLess(keys[m], keys[n])
                        \/ (keys[m] = keys[n] /\ m < n)}) + 1
    IN [r \in DOMAIN q |-> q[CHOOSE n \in DOMAIN q : rank(n) = r]]

\* the configured list left in declared order
SortTemples_DeclaredOrder(temple_list) == temple_list

\* temples.sort(key=lambda t: t.get('priority', 999))
SortTemples(temple_list) ==
    SortedBy(temple_list, [n \in DOMAIN temple_list |-> <<temple_list[n].priority, 0>>])

is_embeddable(video) == video.embeddable # "false"

is_trusted_channel(video, temple) == video.channelId \in temple.trusted_channels

\* video.get('concurrent_view_count', video.get('view_count', 0)) or 0
YtViewers(video) ==
    IF video.concurrentViewers.kind = "num" THEN video.concurrentViewers.n ELSE 0

yt_passes_filters(video, temple) ==
    IF HasExcludedKeyword(video.title) THEN FALSE
    ELSE IF ~is_embeddable(video) THEN FALSE
    ELSE IF ~is_trusted_channel(video, temple)
            /\ YtViewers(video) < filters.min_viewer_count_untrusted
         THEN FALSE
    ELSE TRUE

format_stream(video_id, video, temple) ==
    [temple_id |-> temple.id,
     video_id |-> video_id,
     title |-> video.title,
     channel_id |-> video.channelId,
     viewer_count |-> video.concurrentViewers,
     is_trusted_channel |-> is_trusted_channel(video, temple)]

\* the entries sorted trusted first, then by descending viewers; the first
\* that passes
yt_fallback_search(temple, video_ids) ==
    LET keys == [n \in DOMAIN video_ids |->
                    <<IF is_trusted_channel(Catalog[video_ids[n]].rec, temple)
                      THEN 0 ELSE 1,
                      0 - YtViewers(Catalog[video_ids[n]].rec)>>]
        videos == SortedBy(video_ids, keys)
        pass == {n \in DOMAIN videos :
                    yt_passes_filters(Catalog[videos[n]].rec, temple)}
    IN IF pass = {} THEN <<>>
       ELSE <<format_stream(videos[First(pass)],
                            Catalog[videos[First(pass)]].rec, temple)>>

\* replacement also by a same-trust candidate with more viewers
YtShouldReplace_ByViewers(current, video, temple) ==
    LET new_is_trusted == is_trusted_channel(video, temple)
    IN \/ new_is_trusted /\ ~current.is_trusted_channel
       \/ /\ new_is_trusted = current.is_trusted_channel
          /\ YtViewers(video) > (IF current.viewer_count.kind = "num"
                                 THEN current.viewer_count.n ELSE 0)

\* `if new_is_trusted and not current_is_trusted`
YtShouldReplace(current, video, temple) ==
    is_trusted_channel(video, temple) /\ ~current.is_trusted_channel

InitYt ==
    /\ \E c \in Configs :
          /\ yt_declared = c[1]
          /\ temples = SortTemples(c[1])
          /\ filters = c[2]
    /\ MainIdle /\ GsIdle /\ FnIdle
    /\ yt_pc = "match"
    /\ all_videos \in YtPools
    /\ yt_idx = 1
    /\ results = <<>>
    /\ yt_matched = <<>>
    /\ missing = <<>>
    /\ yt_fb = <<>>
    /\ yt_output = <<>>

\* one iteration of `for video in all_videos` (Phase 2)
YtMatchStep ==
    /\ yt_pc = "match"
    /\ yt_idx <= Len(all_videos)
    /\ LET video_id == all_videos[yt_idx]
           video == Catalog[video_id].rec
           temple_id == yt_find_matching_temple(video.title, video.channelId, temples)
       IN /\ yt_matched' = Put(yt_matched, video_id, temple_id)
          /\ IF temple_id = None THEN results' = results
             ELSE LET temple == temple_by_id(temple_id)
                  IN IF ~yt_passes_filters(video, temple) THEN results' = results
                     ELSE IF temple_id \notin DOMAIN results
                     THEN results' = Put(results, temple_id,
                                         format_stream(video_id, video, temple))
                     ELSE IF YtShouldReplace(results[temple_id], video, temple)
                     THEN results' = Put(results, temple_id,
                                         format_stream(video_id, video, temple))
                     ELSE results' = results
    /\ yt_idx' = yt_idx + 1
    /\ UNCHANGED <<yt_pc, yt_declared, all_videos, missing, yt_fb, yt_output>>

\* missing = [t for t in temples if t['id'] not in results]
YtMatchEnd ==
    /\ yt_pc = "match"
    /\ yt_idx > Len(all_videos)
    /\ missing' = MissingTemples(results)
    /\ yt_pc' = IF MissingTemples(results) = <<>> THEN "output" ELSE "fallback"
    /\ yt_idx' = 1
    /\ UNCHANGED <<yt_declared, all_videos, results, yt_matched, yt_fb, yt_output>>

\* one iteration of `for temple in missing` (Phase 3)
YtFallbackStep ==
    /\ yt_pc = "fallback"
    /\ yt_idx <= Len(missing)
    /\ LET temple == temple_by_id(missing[yt_idx])
       IN \E video_ids \in FallbackLists :
            LET stream == yt_fallback_search(temple, video_ids)
            IN /\ yt_fb' = Put(yt_fb, temple.id, video_ids)
               /\ results' = IF stream # <<>> THEN Put(results, temple.id, stream[1])
                             ELSE results
    /\ yt_idx' = yt_idx + 1
    /\ yt_pc' = IF yt_idx + 1 > Len(missing) THEN "output" ELSE "fallback"
    /\ UNCHANGED <<yt_declared, all_videos, yt_matched, missing, yt_output>>

\* Phase 4
YtOutput ==
    /\ yt_pc = "output"
    /\ LET live_streams == CollectStreams(
                               [t \in DOMAIN results |-> [stream |-> results[t]]], 1)
       IN yt_output' = [stream_count |-> Len(live_streams),
                        total_temples |-> Len(temples),
                        streams |-> live_streams]
    /\ yt_pc' = "done"
    /\ UNCHANGED <<yt_declared, all_videos, yt_idx, results, yt_matched, missing,
                   yt_fb>>

NextYt ==
    \/ YtMatchStep /\ UNCHANGED <<cfgVars, mainVars, gsVars, fnVars>>
    \/ YtMatchEnd /\ UNCHANGED <<cfgVars, mainVars, gsVars, fnVars>>
    \/ YtFallbackStep /\ UNCHANGED <<cfgVars, mainVars, gsVars, fnVars>>
    \/ YtOutput /\ UNCHANGED <<cfgVars, mainVars, gsVars, fnVars>>

SpecYt == InitYt /\ [][NextYt]_vars

----------------------------------------------------------------------------
(* Claims about the pipeline (Spec) *)

\* viewer_count of a candidate, 0 when unknown
CandidateViewers(video) ==
    IF video.concurrentViewers.kind = "num" THEN video.concurrentViewers.n ELSE 0

\* positions of the temples one of whose keywords occurs in the title
KeywordHits(title) ==
    {n \in DOMAIN temples :
        \E k \in DOMAIN temples[n].title_keywords :
            Contains(Lower(temples[n].title_keywords[k]), Lower(title))}

\* the title contains an excluded keyword, letters compared without case
TitleHasExcluded(title) ==
    \E k \in DOMAIN filters.exclude_title_keywords :
        LET kw == filters.exclude_title_keywords[k]
        IN \E off \in 0..(Len(title) - Len(kw)) :
              \A n \in 1..Len(kw) : LowerChar(title[off + n]) = LowerChar(kw[n])

\* the pool candidates for which details came back
PoolVideos == {v \in Range(search_results) : v \in DOMAIN video_details}

PriorityOf(tid) == temple_by_id(tid).priority

\* C1 as stated: at the end of the run, a venue for which the pool holds a
\* passing trusted-channel candidate and a passing untrusted candidate with
\* more viewers is assigned to a trusted-channel candidate.
C1_TrustDominance ==
    pc = "done" =>
      \A n \in DOMAIN temples :
        (\E t, u \in PoolVideos :
            /\ video_details[t].channelId \in temples[n].trusted_channels
            /\ passes_filters(video_details[t], TRUE)
            /\ KeywordHits(video_details[u].title) # {}
            /\ First(KeywordHits(video_details[u].title)) = n
            /\ video_details[u].channelId \notin temples[n].trusted_channels
            /\ passes_filters(video_details[u], FALSE)
            /\ CandidateViewers(video_details[u]) > CandidateViewers(video_details[t]))
        => /\ temples[n].id \in DOMAIN assigned
           /\ assigned[temples[n].id].stream.channel_id \in temples[n].trusted_channels

\* C2 as stated: venue priority is non-decreasing along output['streams'].
C2_OutputOrdering ==
    pc = "done" =>
      \A m, n \in DOMAIN output.streams :
        m < n => PriorityOf(output.streams[m].temple_id)
                    <= PriorityOf(output.streams[n].temple_id)

\* C4: a fallback query is issued only for venues that held no assignment
\* when the bulk pass ended.
C4_FallbackMonotonicity ==
    \A tid \in queried : tid \notin bulk_assigned

\* one venue was assigned in the bulk pass, the other was queried
C4_Witness ==
    pc = "done" /\ queried # {} /\ bulk_assigned # {}

\* C5: passes_filters rejects every candidate with an excluded keyword in its
\* title, whatever is_trusted and the viewer count, and no such candidate is
\* ever assigned, in the bulk pass, the unmatched re-check or the fallback.
C5_ExclusionPrecedence ==
    /\ \A tid \in DOMAIN assigned : ~TitleHasExcluded(assigned[tid].stream.title)
    /\ (pc = "search" /\ idx = 1) =>
          \A v \in VideoRecords : \A tr \in BOOLEAN :
              TitleHasExcluded(v.title) => ~passes_filters(v, tr)

\* trusted-channel videos with an excluded keyword were met in the bulk pass,
\* in the unmatched list and in the fallback result, and somnath stayed free
C5_Witness ==
    /\ pc = "done"
    /\ "somnath" \notin DOMAIN assigned
    /\ "e" \in PoolVideos
    /\ \E n \in DOMAIN unmatched : unmatched[n].video_id = "k"
    /\ "somnath" \in queried
    /\ "e" \in Range(fb_items["somnath"])

C8_NeverFatal == pc # "crashed"

\* C9: the output holds exactly one record per assigned venue, the assigned
\* stream, none for an unresolved venue, and stream_count is its length.
C9_AbsenceSignalsNotFound ==
    pc = "done" =>
      /\ output.stream_count = Len(output.streams)
      /\ \A tid \in TempleIds :
            LET recs == {n \in DOMAIN output.streams :
                            output.streams[n].temple_id = tid}
            IN IF tid \in DOMAIN assigned
               THEN /\ Cardinality(recs) = 1
                    /\ \A n \in recs : output.streams[n] = assigned[tid].stream
               ELSE recs = {}
      /\ \A n \in DOMAIN output.streams : output.streams[n].temple_id \in TempleIds

\* one venue resolved, the other unresolved after its fallback query
C9_Witness ==
    /\ pc = "done"
    /\ Cardinality(DOMAIN assigned) = 1
    /\ queried # {}
    /\ Len(output.streams) = 1

\* the venue a candidate's title names first, in declared order
NamedVenue(video) == temples[First(KeywordHits(video.title))]

\* positions below idx of the pool candidates that matched venue tid and
\* passed the filter
BulkPassed(tid) ==
    {n \in 1..(idx - 1) :
        /\ n \in DOMAIN search_results
        /\ search_results[n] \in DOMAIN video_details
        /\ LET video == video_details[search_results[n]]
           IN /\ KeywordHits(video.title) # {}
              /\ NamedVenue(video).id = tid
              /\ passes_filters(video, video.channelId
                                          \in NamedVenue(video).trusted_channels)}

\* C13: a bulk-pass step whose candidate matched venue v, passed the filter
\* and reached the resolver writes v's assignment exactly when v has none, or
\* the candidate is trusted and the incumbent is not, or both have the same
\* trust level and the candidate has strictly more viewers; otherwise the
\* assignment map is left as it was, so an exact tie keeps the incumbent.
C13_ReplacementRule ==
    [][(/\ pc = "bulk" /\ pc' = "bulk" /\ idx' = idx + 1
        /\ idx \in DOMAIN search_results
        /\ search_results[idx] \in DOMAIN video_details
        /\ KeywordHits(video_details[search_results[idx]].title) # {}
        /\ LET video == video_details[search_results[idx]]
           IN passes_filters(video, video.channelId
                                       \in NamedVenue(video).trusted_channels))
       => LET video_id == search_results[idx]
              video == video_details[video_id]
              v == NamedVenue(video).id
              trusted == video.channelId \in NamedVenue(video).trusted_channels
              viewers == CandidateViewers(video)
              rule == \/ v \notin DOMAIN assigned
                      \/ trusted /\ ~assigned[v].is_trusted
                      \/ /\ trusted = assigned[v].is_trusted
                         /\ viewers > assigned[v].viewer_count
          IN IF rule
             THEN /\ v \in DOMAIN assigned'
                  /\ assigned'[v].stream.video_id = video_id
                  /\ assigned'[v].is_trusted = trusted
                  /\ assigned'[v].viewer_count = viewers
                  /\ \A w \in DOMAIN assigned \ {v} :
                        w \in DOMAIN assigned' /\ assigned'[w] = assigned[w]
             ELSE assigned' = assigned]_vars

\* two passing candidates of one venue with the same trust level and the same
\* viewer count were processed and the first of them is assigned
C13_Witness ==
    /\ pc = "bulk"
    /\ \E tid \in DOMAIN assigned : \E m, n \in BulkPassed(tid) :
          /\ m < n
          /\ (video_details[search_results[m]].channelId
                 \in temple_by_id(tid).trusted_channels)
               = (video_details[search_results[n]].channelId
                 \in temple_by_id(tid).trusted_channels)
          /\ CandidateViewers(video_details[search_results[m]])
               = CandidateViewers(video_details[search_results[n]])
          /\ assigned[tid].stream.video_id = search_results[m]

\* C15: no step of a run removes an assignment or replaces a trusted
\* assignment (is_trusted = TRUE) by an untrusted one, in the bulk pass and
\* in the fallback phase; in the bulk pass the pair (is_trusted,
\* viewer_count) of a venue's assignment never decreases, trusted above
\* untrusted, then by viewer_count.
C15_NoTrustDowngrade ==
    [][run' = run =>
         \A tid \in DOMAIN assigned :
            /\ tid \in DOMAIN assigned'
            /\ assigned[tid].is_trusted => assigned'[tid].is_trusted
            /\ pc = "bulk" =>
                 \/ ~assigned[tid].is_trusted /\ assigned'[tid].is_trusted
                 \/ /\ assigned'[tid].is_trusted = assigned[tid].is_trusted
                    /\ assigned'[tid].viewer_count >= assigned[tid].viewer_count]_vars

\* a trusted candidate is assigned and a later untrusted passing candidate of
\* the same venue with more viewers was processed
C15_Witness ==
    /\ pc = "bulk"
    /\ \E tid \in DOMAIN assigned : \E m, n \in BulkPassed(tid) :
          /\ m < n
          /\ video_details[search_results[m]].channelId
                 \in temple_by_id(tid).trusted_channels
          /\ video_details[search_results[n]].channelId
                 \notin temple_by_id(tid).trusted_channels
          /\ CandidateViewers(video_details[search_results[n]])
               > CandidateViewers(video_details[search_results[m]])
          /\ assigned[tid].stream.video_id = search_results[m]
          /\ assigned[tid].is_trusted

\* positions in the unmatched list of the candidates of a channel trusted
\* for venue tid that are embeddable and free of excluded keywords, which is
\* what the filter asks of a trusted candidate
TrustedUnmatched(tid) ==
    {n \in DOMAIN unmatched :
        /\ unmatched[n].channel_id \in temple_by_id(tid).trusted_channels
        /\ unmatched[n].video_id \in DOMAIN video_details
        /\ video_details[unmatched[n].video_id].embeddable # "false"
        /\ ~TitleHasExcluded(video_details[unmatched[n].video_id].title)}

\* C16: a fallback query is issued only for a venue without passing
\* trusted-channel candidate in the unmatched list; once Phase 4 is past a
\* venue that was unassigned after the bulk pass, the venue is assigned to the
\* first such candidate in unmatched order, with is_trusted = TRUE and without
\* a query, if there is one, and has been queried otherwise.
C16_UnmatchedRecheck ==
    /\ \A tid \in queried : TrustedUnmatched(tid) = {}
    /\ \A n \in DOMAIN missing_temples :
          n < idx =>
            LET tid == missing_temples[n]
            IN IF TrustedUnmatched(tid) # {}
               THEN /\ tid \in DOMAIN assigned
                    /\ assigned[tid].stream.video_id
                         = unmatched[First(TrustedUnmatched(tid))].video_id
                    /\ assigned[tid].is_trusted
                    /\ assigned[tid].stream.is_trusted_channel
                    /\ tid \notin queried
               ELSE tid \in queried

\* one venue was assigned from the unmatched list without a query, the other
\* had no such candidate and was queried
C16_Witness ==
    /\ pc = "done"
    /\ queried # {}
    /\ \E n \in DOMAIN missing_temples :
          /\ TrustedUnmatched(missing_temples[n]) # {}
          /\ missing_temples[n] \in DOMAIN assigned
          /\ missing_temples[n] \notin queried

\* positions in venue tid's fallback result of the candidates that pass the
\* filter, is_trusted being whether the venue trusts their channel
FallbackPassing(tid) ==
    {n \in DOMAIN fb_items[tid] :
        /\ Catalog[fb_items[tid][n]].kind = "item"
        /\ LET video == Catalog[fb_items[tid][n]].rec
           IN passes_filters(video, video.channelId
                                       \in temple_by_id(tid).trusted_channels)}

FallbackTrustedPassing(tid) ==
    {n \in FallbackPassing(tid) :
        Catalog[fb_items[tid][n]].rec.channelId \in temple_by_id(tid).trusted_channels}

\* C17 as stated: the fallback search of a venue returns the first passing
\* trusted-channel candidate of its result list; without one, the passing
\* candidate with the highest viewer_count (the earliest of them in result
\* order); and nothing when no candidate passes.
C17_FallbackBestAsClaimed ==
    (pc # "crashed") =>
    \A tid \in queried :
        IF FallbackTrustedPassing(tid) # {}
        THEN /\ tid \in DOMAIN assigned
             /\ assigned[tid].stream.video_id
                  = fb_items[tid][First(FallbackTrustedPassing(tid))]
        ELSE IF FallbackPassing(tid) # {}
        THEN /\ tid \in DOMAIN assigned
             /\ \E n \in FallbackPassing(tid) :
                   /\ assigned[tid].stream.video_id = fb_items[tid][n]
                   /\ \A k \in FallbackPassing(tid) :
                         CandidateViewers(Catalog[fb_items[tid][k]].rec)
                           <= CandidateViewers(Catalog[fb_items[tid][n]].rec)
        ELSE tid \notin DOMAIN assigned

\* C18: every global query template is requested exactly once, those not
\* yet reached by the search loop not at all; every venue's fallback query is
\* requested at most once, and once exactly for the queried venues, whatever
\* the answers; at the end of the run a venue whose fallback result held no
\* passing candidate is unresolved.
C18_NoRetry ==
    /\ \A q \in DOMAIN calls.global :
          calls.global[q] = IF pc = "search" /\ q >= idx THEN 0 ELSE 1
    /\ \A tid \in TempleIds :
          calls.fallback[tid] = IF tid \in queried THEN 1 ELSE 0
    /\ pc = "done" =>
          \A tid \in queried :
              FallbackPassing(tid) = {} => tid \notin DOMAIN assigned

\* a run ended after an empty answer to a global query and with a venue left
\* unresolved by a fallback query
C18_Witness ==
    /\ pc = "done" /\ run = 1
    /\ search_results = <<>>
    /\ \E tid \in queried :
          FallbackPassing(tid) = {} /\ tid \notin DOMAIN assigned

\* C19 as stated: no remote call follows another remote call without a
\* sleep in between.
C19_CallSpacing == ~calls.back_to_back

\* C20: in every state each assigned candidate is embeddable and has no
\* excluded keyword in its title; its recorded is_trusted flag is TRUE exactly
\* when its channel is in the trusted set of the venue it is assigned to; and
\* if the flag is FALSE its viewer_count is at least
\* min_viewer_count_untrusted.
C20_FilterClean ==
    \A tid \in DOMAIN assigned :
        LET a == assigned[tid]
            video == Catalog[a.stream.video_id].rec
        IN /\ a.stream.temple_id = tid
           /\ video.embeddable # "false"
           /\ ~TitleHasExcluded(video.title)
           /\ a.is_trusted = (video.channelId \in temple_by_id(tid).trusted_channels)
           /\ a.stream.is_trusted_channel = a.is_trusted
           /\ ~a.is_trusted =>
                 /\ CandidateViewers(video) >= filters.min_viewer_count_untrusted
                 /\ a.viewer_count >= filters.min_viewer_count_untrusted

\* under a viewer floor of 5, one venue is assigned to an untrusted candidate
\* and the other to a trusted one, one of them by the fallback phase
C20_Witness ==
    /\ pc = "done"
    /\ filters.min_viewer_count_untrusted = 5
    /\ DOMAIN assigned = TempleIds
    /\ \E t, u \in TempleIds : assigned[t].is_trusted /\ ~assigned[u].is_trusted
    /\ bulk_assigned # TempleIds

\* C21 as stated: at the end of the run no video is assigned to two
\* different venues.
C21_OneVideoPerVenue ==
    pc = "done" =>
      \A t, u \in DOMAIN assigned :
          t # u => assigned[t].stream.video_id # assigned[u].stream.video_id

\* C22: from the end of the bulk pass to the output, no step removes or
\* changes the assignment of a venue assigned in the bulk pass; a step of the
\* fallback phase changes or adds the entry of the venue it processes at
\* most, and the output step changes none, so the set of assigned venues
\* only grows.
C22_FallbackFrame ==
    [][(pc \in {"fallback", "output"}) =>
         /\ \A tid \in DOMAIN assigned :
               /\ tid \in DOMAIN assigned'
               /\ (tid \in bulk_assigned
                      \/ pc = "output"
                      \/ tid # missing_temples[idx])
                    => assigned'[tid] = assigned[tid]
         /\ \A tid \in DOMAIN assigned' \ DOMAIN assigned :
               pc = "fallback" /\ tid = missing_temples[idx]]_vars

\* the run ended with one venue assigned in the bulk pass and the other one
\* assigned afterwards by the second step of the fallback phase
C22_Witness ==
    /\ pc = "done"
    /\ Len(missing_temples) = 1
    /\ Cardinality(bulk_assigned) = 1
    /\ DOMAIN assigned = TempleIds
    /\ \A tid \in bulk_assigned : tid # missing_temples[1]

----------------------------------------------------------------------------
(* Claims about global_search (SpecSearch) *)

\* C3: at every step of the bulk search the accumulated pool holds no two
\* records with the same video_id and no record whose video_id is missing
\* or empty.
C3_DedupInvariant ==
    /\ \A i, j \in DOMAIN all_results :
          i # j => all_results[i].videoId # all_results[j].videoId
    /\ \A i \in DOMAIN all_results :
          all_results[i].has_id /\ all_results[i].videoId # ""

\* a later query repeated an id, an id-less item came back, both were dropped
C3_Witness ==
    /\ gs_pc = "return"
    /\ gs_log.dup /\ gs_log.noid
    /\ Len(all_results) >= 2

----------------------------------------------------------------------------
(* Claims about the pure functions (SpecFn) *)

\* C6: for an embeddable candidate without excluded keyword, passes_filters
\* passes a trusted candidate for every viewer count, fails an untrusted one
\* below min_viewer_count_untrusted and passes an untrusted one at or above it.
C6_TrustExemption ==
    (fn_passed # <<>> /\ fn_video.embeddable # "false"
        /\ ~HasExcludedKeyword(fn_video.title))
    => /\ fn_trusted => fn_passed[1]
       /\ (~fn_trusted /\ CandidateViewers(fn_video)
                            < filters.min_viewer_count_untrusted) => ~fn_passed[1]
       /\ (~fn_trusted /\ CandidateViewers(fn_video)
                            >= filters.min_viewer_count_untrusted) => fn_passed[1]

\* a trusted candidate with unknown viewers passed under threshold 5
C6_Witness ==
    /\ fn_passed = <<TRUE>> /\ fn_trusted
    /\ fn_video.concurrentViewers.kind # "num"
    /\ filters.min_viewer_count_untrusted = 5

\* positions of the temples for which the channel is trusted
TrustedFor(channel_id) ==
    {i \in DOMAIN temples : channel_id \in temples[i].trusted_channels}

\* C10 as stated: a candidate whose channel is trusted for some venue is
\* matched to the first such venue with is_trusted = TRUE, whatever its title.
C10_TrustFirstAsClaimed ==
    (fn_match # <<>> /\ TrustedFor(fn_video.channelId) # {})
    => fn_match = <<temples[First(TrustedFor(fn_video.channelId))].id, TRUE>>

\* C10 amended: the matcher returns the first venue in declared order with a
\* keyword in the title, is_trusted telling whether the channel is trusted
\* for that venue; without a keyword hit the result is (none, false).
C10_KeywordFirst ==
    fn_match # <<>>
    => IF KeywordHits(fn_video.title) = {}
       THEN fn_match = <<None, FALSE>>
       ELSE LET t == temples[First(KeywordHits(fn_video.title))]
            IN fn_match = <<t.id, fn_video.channelId \in t.trusted_channels>>

\* a channel trusted for a venue, a title without that venue's keywords
C10_Witness ==
    /\ fn_match # <<>>
    /\ TrustedFor(fn_video.channelId) # {}
    /\ \A i \in TrustedFor(fn_video.channelId) : i \notin KeywordHits(fn_video.title)
    /\ fn_match[1] # temples[First(TrustedFor(fn_video.channelId))].id

\* C11 as stated: find_live_streams.py's matcher consults the title keywords
\* only when the channel is trusted for no venue; a channel trusted for some
\* venue is matched to the first such venue, also when an earlier venue has a
\* keyword in the title.
C11_TrustPassFirstAsClaimed ==
    (fn_match_yt # <<>> /\ TrustedFor(fn_video.channelId) # {})
    => fn_match_yt[1] = temples[First(TrustedFor(fn_video.channelId))].id

\* C11 amended: find_live_streams.py's matcher returns the first venue, in
\* the order of the list it is given, that trusts the channel or has a keyword
\* in the title; trust and keywords are tested venue by venue, so a keyword of
\* an earlier venue wins over the trust of a later one.
C11_FirstVenueTrustedOrKeyword ==
    fn_match_yt # <<>>
    => LET hits == TrustedFor(fn_video.channelId) \cup KeywordHits(fn_video.title)
       IN fn_match_yt[1] = IF hits = {} THEN None ELSE temples[First(hits)].id

\* a keyword of the first venue in the title, a channel trusted for the
\* second venue only: the first venue is returned
C11_Witness ==
    /\ fn_match_yt # <<>>
    /\ 1 \in KeywordHits(fn_video.title)
    /\ TrustedFor(fn_video.channelId) = {2}
    /\ fn_match_yt[1] = temples[1].id

----------------------------------------------------------------------------
(* Claims about the yt-dlp pipeline (SpecYt) *)

\* positions in the declared list of the venues with a keyword in the title
DeclaredKeywordHits(title) ==
    {n \in DOMAIN yt_declared : HasKeyword(yt_declared[n], Lower(title))}

\* positions in the declared list of the venues that trust the channel or
\* have a keyword in the title
DeclaredHits(video) ==
    {n \in DOMAIN yt_declared :
        \/ video.channelId \in yt_declared[n].trusted_channels
        \/ HasKeyword(yt_declared[n], Lower(video.title))}

\* C12 as stated: in the bulk pass of the yt-dlp pipeline a candidate whose
\* title holds keywords of more than one venue is matched to the venue
\* declared earliest among them, whatever the priorities.
C12_DeclaredOrderAsClaimed ==
    \A v \in DOMAIN yt_matched :
        Cardinality(DeclaredKeywordHits(Catalog[v].rec.title)) > 1
        => yt_matched[v] =
              yt_declared[First(DeclaredKeywordHits(Catalog[v].rec.title))].id

\* C12 amended: the bulk pass of the yt-dlp pipeline matches a candidate to
\* the venue of lowest priority value among the venues that trust its channel
\* or have a keyword in its title, the declaration order deciding among equal
\* priorities only; a candidate no venue trusts or names is matched to none.
C12_PriorityOrderMatching ==
    \A v \in DOMAIN yt_matched :
        LET hits == DeclaredHits(Catalog[v].rec)
        IN IF hits = {} THEN yt_matched[v] = None
           ELSE \E n \in hits :
                  /\ yt_matched[v] = yt_declared[n].id
                  /\ \A m \in hits \ {n} :
                        \/ yt_declared[n].priority < yt_declared[m].priority
                        \/ /\ yt_declared[n].priority = yt_declared[m].priority
                           /\ n < m

\* a title with the keywords of two venues went to the venue declared second,
\* whose priority value is lower
C12_Witness ==
    \E v \in DOMAIN yt_matched :
        /\ DeclaredKeywordHits(Catalog[v].rec.title) = {1, 2}
        /\ yt_matched[v] = yt_declared[2].id
        /\ yt_declared[2].priority < yt_declared[1].priority

\* C14: in the bulk pass of the yt-dlp pipeline a venue's result, once
\* written, stays, except that an untrusted result is replaced by a
\* trusted-channel candidate: no step replaces a result by a candidate of the
\* same trust level, whatever its viewer count.
C14_BulkPassAsymmetry ==
    [][yt_pc = "match" =>
         \A tid \in DOMAIN results :
            /\ tid \in DOMAIN results'
            /\ results'[tid] # results[tid]
                 => /\ ~results[tid].is_trusted_channel
                    /\ results'[tid].is_trusted_channel]_vars

\* positions below yt_idx of the passing candidates matched to venue tid
YtPassed(tid) ==
    {n \in 1..(yt_idx - 1) :
        /\ n \in DOMAIN all_videos
        /\ all_videos[n] \in DOMAIN yt_matched
        /\ yt_matched[all_videos[n]] = tid
        /\ yt_passes_filters(Catalog[all_videos[n]].rec, temple_by_id(tid))}

\* two passing candidates of one venue and one trust level, the later with
\* more viewers, were processed and the earlier one is the result
C14_Witness ==
    /\ yt_pc = "match"
    /\ \E tid \in DOMAIN results : \E m, n \in YtPassed(tid) :
          /\ m < n
          /\ is_trusted_channel(Catalog[all_videos[m]].rec, temple_by_id(tid))
               = is_trusted_channel(Catalog[all_videos[n]].rec, temple_by_id(tid))
          /\ YtViewers(Catalog[all_videos[n]].rec) > YtViewers(Catalog[all_videos[m]].rec)
          /\ results[tid].video_id = all_videos[m]

====
